---- MODULE Spec2Model ----
(***************************************************************************)
(* figenv: MetaConfig, a metaclass whose classes resolve their settings    *)
(* from the process environment (src/figenv.py).                           *)
(*                                                                         *)
(* Python strings are sequences of one-character strings, so that the      *)
(* string methods the code calls (lower, isupper, isdigit, count, lstrip,  *)
(* startswith, +) are computed and not assumed.  Python values are         *)
(* records tagged by their type in field t.  A dict is an association      *)
(* list <<key, value>> in insertion order.                                 *)
(***************************************************************************)
EXTENDS Integers, Sequences, FiniteSets, TLC

VARIABLES
    classes,    \* class id -> NoClass, or the class object MetaConfig.__init__ built
    environ,    \* os.environ: a function from the keys present to their strings
    result,     \* what the last operation did: its arguments and its outcome
    seen        \* the caller's memory of its two latest resolutions, when it keeps one

vars == <<classes, environ, result, seen>>

----------------------------------------------------------------------------
(* Characters and the str methods the code uses.                           *)

UpperChars == <<"A","B","C","D","E","F","G","H","I","J","K","L","M","N","O","P","Q","R","S","T","U","V","W","X","Y","Z">>
LowerChars == <<"a","b","c","d","e","f","g","h","i","j","k","l","m","n","o","p","q","r","s","t","u","v","w","x","y","z">>
DigitChars == <<"0","1","2","3","4","5","6","7","8","9">>

Range(s) == {s[i] : i \in DOMAIN s}
IndexOf(s, c) == CHOOSE i \in DOMAIN s : s[i] = c

IsUpperChar(c) == c \in Range(UpperChars)
IsLowerChar(c) == c \in Range(LowerChars)
IsDigitChar(c) == c \in Range(DigitChars)
DigitValue(c) == IndexOf(DigitChars, c) - 1

\* str.lower()
lower(s) == [i \in DOMAIN s |-> IF IsUpperChar(s[i]) THEN LowerChars[IndexOf(UpperChars, s[i])] ELSE s[i]]

\* str.isupper(): no lowercase character and at least one uppercase one
isupper(s) == (\A i \in DOMAIN s : ~IsLowerChar(s[i])) /\ (\E i \in DOMAIN s : IsUpperChar(s[i]))

\* str.isdigit(): not empty, and digits only
isdigit(s) == s # <<>> /\ \A i \in DOMAIN s : IsDigitChar(s[i])

\* str.count(c) for a one-character c
count(s, c) == Cardinality({i \in DOMAIN s : s[i] = c})

\* str.startswith(p)
startswith(s, p) == Len(s) >= Len(p) /\ SubSeq(s, 1, Len(p)) = p

\* str.lstrip(c) for a one-character c
RECURSIVE lstrip(_, _)
lstrip(s, c) == IF s # <<>> /\ Head(s) = c THEN lstrip(Tail(s), c) ELSE s

\* str.split(c) for a one-character c: the list of the pieces between the c's
RECURSIVE split(_, _)
split(s, c) ==
    IF \A i \in DOMAIN s : s[i] # c THEN <<s>>
    ELSE LET k == CHOOSE i \in DOMAIN s : s[i] = c /\ \A j \in 1..(i - 1) : s[j] # c
         IN  <<SubSeq(s, 1, k - 1)>> \o split(SubSeq(s, k + 1, Len(s)), c)

----------------------------------------------------------------------------
(* Python values.                                                          *)

NoneV == [t |-> "NoneType"]
BoolV(b) == [t |-> "bool", b |-> b]
IntV(i) == [t |-> "int", i |-> i]
StrV(s) == [t |-> "str", s |-> s]
ListV(l) == [t |-> "list", l |-> l]
\* a float, exactly: num / 10^exp, with no trailing zero kept in num
FloatV(num, exp) == [t |-> "float", num |-> num, exp |-> exp]
\* float('inf'), float('-inf'), float('nan')
FloatSpecial(which) == [t |-> "float", special |-> which]
\* a dict value: the class body's __annotations__ entry is one (name -> annotation)
DictV(d) == [t |-> "dict", d |-> d]
\* A function usable as a dynamic default, f(cls).  body says what it computes:
\* Const(v) returns v; Concat(n, s) returns cls.<n> + s (test.py:360-361).
\* returns is its return annotation, _strict the mark strict() sets.
Const(v) == [op |-> "const", v |-> v]
Concat(n, s) == [op |-> "concat", n |-> n, s |-> s]
FuncV(body, returns, isStrict) == [t |-> "function", body |-> body, returns |-> returns, _strict |-> isStrict]
\* a method of MetaConfig bound to the class
MethodV(n) == [t |-> "method", n |-> n]

\* _MISSING: the sentinel of a setting declared with no default
_MISSING == [t |-> "MISSING"]

isinstance_str(v) == v.t = "str"
callable(v) == v.t = "function"

\* An annotation is a type object: its __name__ and whether it has a _coerce.
NoAnnotation == [t |-> "NoAnnotation"]
Type(n, hasCoerce) == [t |-> "type", __name__ |-> n, _coerce |-> hasCoerce]
\* A typing alias: it has a _name, which is None for some (typing.Union[int, str]);
\* a string annotation has neither name and gives the same None at line 102
Alias(name) == [t |-> "alias", _name |-> name, _coerce |-> FALSE]
\* getattr(annotation, '_name', getattr(annotation, '__name__', None))
annoname(annotation) == IF annotation.t = "alias" THEN annotation._name ELSE StrV(annotation.__name__)

\* The outcome of a call: what it returned, or what it raised.
Return(v) == [k |-> "return", v |-> v]
Raise(exc, arg) == [k |-> "raise", exc |-> exc, arg |-> arg]

----------------------------------------------------------------------------
(* dict: an association list in insertion order, keys unique.              *)

dict_keys(d) == [i \in DOMAIN d |-> d[i][1]]
dict_has(d, k) == \E i \in DOMAIN d : d[i][1] = k
\* dict.get(k, default)
dict_get(d, k, default) == IF dict_has(d, k) THEN d[CHOOSE i \in DOMAIN d : d[i][1] = k][2] ELSE default
\* d[k] = v: in place when k is a key, appended when it is not
dict_set(d, k, v) == IF dict_has(d, k) THEN [i \in DOMAIN d |-> IF d[i][1] = k THEN <<k, v>> ELSE d[i]] ELSE Append(d, <<k, v>>)
\* dict.update(other)
RECURSIVE dict_update(_, _)
dict_update(d, other) == IF other = <<>> THEN d ELSE dict_update(dict_set(d, other[1][1], other[1][2]), Tail(other))
\* dict.setdefault(k, v)
dict_setdefault(d, k, v) == IF dict_has(d, k) THEN d ELSE Append(d, <<k, v>>)

----------------------------------------------------------------------------
(* The built-in conversions int(), float() and str() on the strings of the *)
(* model's alphabet: letters, digits, '_', '.', '-' and ','.               *)

\* a run of digits in which single underscores may separate digits
DigitRun(s) ==
    /\ s # <<>>
    /\ \A i \in DOMAIN s : IsDigitChar(s[i]) \/ s[i] = "_"
    /\ s[1] # "_" /\ s[Len(s)] # "_"
    /\ \A i \in 1..(Len(s) - 1) : ~(s[i] = "_" /\ s[i + 1] = "_")

RECURSIVE DigitsValue(_)
DigitsValue(s) ==
    IF s = <<>> THEN 0
    ELSE LET front == SubSeq(s, 1, Len(s) - 1)
             last == s[Len(s)]
         IN  IF last = "_" THEN DigitsValue(front) ELSE 10 * DigitsValue(front) + DigitValue(last)

OnlyDigits(s) == SelectSeq(s, IsDigitChar)

HasSign(s) == s # <<>> /\ s[1] \in {"-", "+"}
Unsigned(s) == IF HasSign(s) THEN Tail(s) ELSE s
Signed(s, n) == IF s # <<>> /\ s[1] = "-" THEN 0 - n ELSE n

\* int(s): an optional sign, then a run of digits; anything else is a ValueError
int(s) ==
    IF DigitRun(Unsigned(s)) THEN Return(IntV(Signed(s, DigitsValue(Unsigned(s)))))
    ELSE Raise("ValueError", s)

RECURSIVE Normalized(_, _)
Normalized(num, exp) == IF exp > 0 /\ num % 10 = 0 THEN Normalized(num \div 10, exp - 1) ELSE FloatV(num, exp)

\* float(s): an optional sign, then digits with at most one '.', a digit on at
\* least one side of it, or inf / infinity / nan; anything else is a ValueError.
\* (No string of the model holds an exponent.)
float(s) ==
    LET u == Unsigned(s)
        dot == IF count(u, ".") = 1 THEN IndexOf(u, ".") ELSE Len(u) + 1
        whole == SubSeq(u, 1, dot - 1)
        frac == SubSeq(u, dot + 1, Len(u))
    IN  IF lower(u) \in {<<"i","n","f">>, <<"i","n","f","i","n","i","t","y">>}
            THEN Return(FloatSpecial(IF s[1] = "-" THEN "-inf" ELSE "inf"))
        ELSE IF lower(u) = <<"n","a","n">> THEN Return(FloatSpecial("nan"))
        ELSE IF /\ count(u, ".") <= 1
                /\ whole # <<>> \/ frac # <<>>
                /\ whole = <<>> \/ DigitRun(whole)
                /\ frac = <<>> \/ DigitRun(frac)
            THEN Return(Normalized(Signed(s, DigitsValue(whole \o frac)), Len(OnlyDigits(frac))))
        ELSE Raise("ValueError", s)

----------------------------------------------------------------------------
(* MetaConfig's coercion methods.                                          *)

_to_str(value) == Return(StrV(value))

_to_bool(value) ==
    IF lower(value) \in {<<"y","e","s">>, <<"t","r","u","e">>, <<"1">>} THEN Return(BoolV(TRUE))
    ELSE Return(BoolV(FALSE))

_to_int(value) == int(value)

_to_float(value) == float(value)

\* json.loads(s) on the model's alphabet, which has no quote, bracket or brace:
\* the JSON texts are true, false, null, NaN, Infinity, -Infinity and the numbers
\* (no leading zero, no underscore, no '+', digits on both sides of a '.').
JsonNumber(s) ==
    LET u == IF s # <<>> /\ s[1] = "-" THEN Tail(s) ELSE s
        dot == IF count(u, ".") = 1 THEN IndexOf(u, ".") ELSE Len(u) + 1
        whole == SubSeq(u, 1, dot - 1)
        frac == SubSeq(u, dot + 1, Len(u))
    IN  /\ count(u, ".") <= 1
        /\ isdigit(whole) /\ (whole[1] = "0" => Len(whole) = 1)
        /\ count(u, ".") = 1 => isdigit(frac)

json_loads(s) ==
    IF s = <<"t","r","u","e">> THEN Return(BoolV(TRUE))
    ELSE IF s = <<"f","a","l","s","e">> THEN Return(BoolV(FALSE))
    ELSE IF s = <<"n","u","l","l">> THEN Return(NoneV)
    ELSE IF s = <<"N","a","N">> THEN Return(FloatSpecial("nan"))
    ELSE IF s = <<"I","n","f","i","n","i","t","y">> THEN Return(FloatSpecial("inf"))
    ELSE IF s = <<"-","I","n","f","i","n","i","t","y">> THEN Return(FloatSpecial("-inf"))
    ELSE IF JsonNumber(s) THEN (IF count(s, ".") = 1 THEN float(s) ELSE int(s))
    ELSE Raise("JSONDecodeError", s)

_to_dict(value) == json_loads(value)

_to_list(value) == json_loads(value)

\* f'_to_{n}'
ToName(n) == <<"_","t","o","_">> \o n

\* the methods of MetaConfig a class finds by attribute lookup on itself
MetaConfigMethods ==
    {<<"k","e","y","s">>,
     ToName(<<"s","t","r">>), ToName(<<"b","o","o","l">>), ToName(<<"i","n","t">>),
     ToName(<<"f","l","o","a","t">>), ToName(<<"d","i","c","t">>), ToName(<<"l","i","s","t">>)}

\* calling a bound coercion method of MetaConfig with the string s
CallMethod(m, s) ==
    CASE m.n = ToName(<<"s","t","r">>) -> _to_str(s)
      [] m.n = ToName(<<"b","o","o","l">>) -> _to_bool(s)
      [] m.n = ToName(<<"i","n","t">>) -> _to_int(s)
      [] m.n = ToName(<<"f","l","o","a","t">>) -> _to_float(s)
      [] m.n = ToName(<<"d","i","c","t">>) -> _to_dict(s)
      [] m.n = ToName(<<"l","i","s","t">>) -> _to_list(s)
      [] OTHER -> Raise("TypeError", m.n)

\* An annotation type's own _coerce, as test.py:78-81 writes one: value.split(',')
ClassMethodV(owner) == [t |-> "classmethod", owner |-> owner]
CallCoerce(s) == Return(ListV([i \in DOMAIN split(s, ",") |-> StrV(split(s, ",")[i])]))

----------------------------------------------------------------------------
(* Names the code spells out.                                              *)

ENV_PREFIX == <<"E","N","V","_","P","R","E","F","I","X">>
ENV_LOAD_ALL == <<"E","N","V","_","L","O","A","D","_","A","L","L">>
n_name == <<"n","a","m","e">>
n_keys == <<"k","e","y","s">>
n_dict == <<"_","d","i","c","t">>
n_annotations == <<"_","_","a","n","n","o","t","a","t","i","o","n","s","_","_">>
n_module == <<"_","_","m","o","d","u","l","e","_","_">>

_check_special_names(name) == name \in {n_name, n_keys} \/ startswith(name, <<"_">>)

\* the decorator: the same function, marked
strict(f) == [f EXCEPT !._strict = TRUE]

\* bool(v), as `not load_all` and the `and` of line 142 take it
truthy(v) ==
    CASE v.t = "bool" -> v.b
      [] v.t = "NoneType" -> FALSE
      [] v.t = "int" -> v.i # 0
      [] v.t = "str" -> v.s # <<>>
      [] OTHER -> TRUE

----------------------------------------------------------------------------
(* Classes.  A class object holds what MetaConfig.__init__ left on it: name *)
(* and _dict, beside its bases and ns, the namespace of its class body.    *)

NoClass == [t |-> "NoClass"]
\* the base `object`: it has no _dict
Object == <<"o","b","j","e","c","t">>

Built(C) == {c \in DOMAIN C : C[c] # NoClass}

\* hasattr(base, '_dict')
hasattr_dict(C, base) == base \in Built(C)

RECURSIVE UpdateFromBases(_, _, _)
UpdateFromBases(C, d, bases) ==
    IF bases = <<>> THEN d
    ELSE IF ~hasattr_dict(C, Head(bases)) THEN UpdateFromBases(C, d, Tail(bases))
    ELSE UpdateFromBases(C, dict_update(d, C[Head(bases)]._dict), Tail(bases))

RECURSIVE SetDefaults(_, _)
SetDefaults(d, names) == IF names = <<>> THEN d ELSE SetDefaults(dict_setdefault(d, Head(names), _MISSING), Tail(names))

\* MetaConfig.__init__(cls, name, bases, dict): the class object it leaves
__init__(C, name, bases, dict) ==
    LET inherited == UpdateFromBases(C, <<>>, bases)
        own == dict_update(inherited, dict)
        annotated == dict_keys(dict_get(dict, n_annotations, DictV(<<>>)).d)
    IN  [name |-> StrV(name), bases |-> bases, ns |-> dict, _dict |-> SetDefaults(own, annotated)]

\* The method resolution order of class c, for the hierarchies of the model: one
\* base, or several bases that have no MetaConfig base themselves.
RECURSIVE mro(_, _)
mro(C, c) ==
    LET bases == SelectSeq(C[c].bases, LAMBDA b : b # Object)
    IN  IF Len(bases) = 1 THEN <<c>> \o mro(C, bases[1]) ELSE <<c>> \o bases

\* the first class of the mro whose namespace has name, or Nowhere
Nowhere == <<>>
Definer(C, c, name) ==
    LET order == mro(C, c)
        found == {i \in DOMAIN order : dict_has(C[order[i]].ns, name)}
    IN  IF found = {} THEN Nowhere ELSE order[CHOOSE i \in found : \A j \in found : i <= j]

\* cls.__annotations__ as type's attribute lookup answers it: the class's own
\* annotations, empty when its body has none (type's __annotations__
\* descriptor does not walk the mro).
class_annotations(w, c) == dict_get(w.classes[c].ns, n_annotations, DictV(<<>>)).d

\* super().__getattribute__(name) of line 58: type's lookup on the class
type_getattribute(w, c, name) ==
    IF name = n_name THEN Return(w.classes[c].name)
    ELSE IF name = n_dict THEN Return(DictV(w.classes[c]._dict))
    ELSE IF name = n_annotations THEN Return(DictV(class_annotations(w, c)))
    ELSE IF Definer(w.classes, c, name) # Nowhere THEN Return(dict_get(w.classes[Definer(w.classes, c, name)].ns, name, NoneV))
    ELSE IF name \in MetaConfigMethods THEN Return(MethodV(name))
    ELSE Raise("AttributeError", name)

__getattribute__(w, c, name) ==
    IF _check_special_names(name) THEN type_getattribute(w, c, name)
    ELSE Raise("AttributeError", name)

----------------------------------------------------------------------------
(* Resolution.  w is the world an access reads: the classes, os.environ    *)
(* and the interpreter's annotation lookup.                                *)

RECURSIVE getattr(_, _, _)
RECURSIVE __getattr__(_, _, _)

\* getattr(cls, name, default): an AttributeError gives the default
\* (mutant) the default also stands in for MissingConfigurationException
getattr_default_any(w, c, name, default) ==
    LET r == getattr(w, c, name)
    IN  IF r.k = "raise" /\ r.exc \in {"AttributeError", "MissingConfigurationException"} THEN Return(default) ELSE r

getattr_default(w, c, name, default) ==
    LET r == getattr(w, c, name)
    IN  IF r.k = "raise" /\ r.exc = "AttributeError" THEN Return(default) ELSE r

\* value(cls): calling a function default with the class
call(w, c, f) ==
    IF f.body.op = "const" THEN Return(f.body.v)
    ELSE LET r == getattr(w, c, f.body.n)
         IN  IF r.k = "raise" THEN r
             ELSE IF isinstance_str(r.v) THEN Return(StrV(r.v.s \o f.body.s))
             ELSE Raise("TypeError", f.body.n)

\* The coercion function for value under annotation (None: NoAnnotation).  A
\* Return holds the function, or NoneV for none; the attribute lookup of
\* line 103 can raise.
_get_coerce_function(w, c, value, annotation) ==
    IF ~isinstance_str(value) THEN Return(NoneV)
    ELSE IF annotation # NoAnnotation THEN
        LET builtin == getattr_default(w, c, ToName(lower(annoname(annotation).s)), NoneV)
        IN  IF annoname(annotation) = NoneV THEN Raise("AttributeError", <<"l","o","w","e","r">>)
            ELSE IF builtin.k = "raise" THEN builtin
            ELSE IF annotation._coerce THEN Return(ClassMethodV(annoname(annotation).s))
            ELSE builtin
    ELSE IF lower(value.s) \in {<<"t","r","u","e">>, <<"f","a","l","s","e">>} THEN Return(MethodV(ToName(<<"b","o","o","l">>)))
    ELSE IF count(value.s, ".") = 1 /\ isdigit(SelectSeq(value.s, LAMBDA x : x \notin {".", "-"})) THEN Return(MethodV(ToName(<<"f","l","o","a","t">>)))
    ELSE IF isdigit(lstrip(value.s, "-")) THEN Return(MethodV(ToName(<<"i","n","t">>)))
    ELSE Return(NoneV)

\* coerce_func(value)
CallCoerceFunc(coerce_func, value) ==
    CASE coerce_func.t = "method" -> CallMethod(coerce_func, value.s)
      [] coerce_func.t = "classmethod" -> CallCoerce(value.s)
      [] coerce_func.t = "function" /\ coerce_func.body.op = "const" -> Return(coerce_func.body.v)
      [] OTHER -> Raise("TypeError", value.s)

\* lines 158-163: pick the coercion function and apply it
Coerced(w, c, value, annotation) ==
    LET coerce_func == _get_coerce_function(w, c, value, annotation)
    IN  IF coerce_func.k = "raise" THEN coerce_func
        ELSE IF coerce_func.v # NoneV THEN CallCoerceFunc(coerce_func.v, value)
        ELSE Return(value)

\* (mutant) the prefix is forgotten
environ_key_bare(prefix, name) == name

\* prefix + name, the key looked up in os.environ
environ_key(prefix, name) == prefix.s \o name

\* (mutant) ENV_LOAD_ALL is not consulted
no_attribute_load_any(_dict, env, prefix, load_all, name) ==
    ~dict_has(_dict, name) /\ environ_key(prefix, name) \notin DOMAIN env

\* line 136: the name is neither declared nor loadable from the environment
no_attribute(_dict, env, prefix, load_all, name) ==
    \/ ~truthy(load_all) /\ ~dict_has(_dict, name)
    \/ ~dict_has(_dict, name) /\ environ_key(prefix, name) \notin DOMAIN env

\* (mutant) the _strict mark is not consulted
override_always(value) == TRUE

\* lines 141-143: every default but a callable marked _strict
override_via_environment(value) == ~(callable(value) /\ truthy(BoolV(value._strict)))

\* (mutant) the class's annotation of the name is not looked up
Materialized_unannotated(w, c, name, value) ==
    IF callable(value)
        THEN [annotation |-> value.returns, value |-> call(w, c, value)]
        ELSE [annotation |-> NoAnnotation, value |-> Return(value)]

\* lines 152-156: a callable is called and brings its return annotation;
\* anything else is taken as it is, with the class's annotation of the name
Materialized(w, c, name, value) ==
    IF callable(value)
        THEN [annotation |-> value.returns, value |-> call(w, c, value)]
        ELSE [annotation |-> dict_get(class_annotations(w, c), name, NoAnnotation), value |-> Return(value)]

\* MetaConfig.__getattr__(cls, name)
__getattr__(w, c, name) ==
    LET _dict == w.classes[c]._dict
        prefix == dict_get(_dict, ENV_PREFIX, StrV(<<>>))
        load_all == dict_get(_dict, ENV_LOAD_ALL, BoolV(FALSE))
        default == dict_get(_dict, name, _MISSING)
        value == IF override_via_environment(default) /\ environ_key(prefix, name) \in DOMAIN w.environ
                    THEN StrV(w.environ[environ_key(prefix, name)])
                    ELSE default
        m == Materialized(w, c, name, value)
    IN  IF no_attribute(_dict, w.environ, prefix, load_all, name) THEN Raise("AttributeError", name)
        ELSE IF value = _MISSING THEN Raise("MissingConfigurationException", name)
        ELSE IF m.value.k = "raise" THEN m.value
        ELSE Coerced(w, c, m.value.v, m.annotation)

\* Attribute access cls.<name>: __getattribute__, and __getattr__ when that
\* raises AttributeError
getattr(w, c, name) ==
    LET r == __getattribute__(w, c, name)
    IN  IF r.k = "raise" /\ r.exc = "AttributeError" THEN __getattr__(w, c, name) ELSE r

----------------------------------------------------------------------------
(* The enumeration and lookup methods.                                     *)

\* MetaConfig.__dir__(cls)
__dir__(w, c) == SelectSeq(dict_keys(w.classes[c]._dict), isupper)

\* The order of str comparison on the model's alphabet (code points).
Alphabet == <<",", "-", ".">> \o DigitChars \o UpperChars \o <<"_">> \o LowerChars

RECURSIVE StrLess(_, _)
StrLess(a, b) ==
    IF b = <<>> THEN FALSE
    ELSE IF a = <<>> THEN TRUE
    ELSE IF a[1] # b[1] THEN IndexOf(Alphabet, a[1]) < IndexOf(Alphabet, b[1])
    ELSE StrLess(Tail(a), Tail(b))

\* sorted(l) for a list of strings
RECURSIVE sorted(_)
sorted(l) ==
    IF l = <<>> THEN <<>>
    ELSE LET least == CHOOSE i \in DOMAIN l : \A j \in DOMAIN l : ~StrLess(l[j], l[i]) /\ (l[j] = l[i] => i <= j)
         IN  <<l[least]>> \o sorted(SubSeq(l, 1, least - 1) \o SubSeq(l, least + 1, Len(l)))

\* MetaConfig.keys(cls): dir(cls), which sorts what __dir__ returns
keys(w, c) == sorted(__dir__(w, c))

\* MetaConfig.__iter__(cls), consumed to its end: the pairs it yields, and
\* how it ends (StopIteration, or what a getattr raised)
RECURSIVE IterFrom(_, _, _)
IterFrom(w, c, ks) ==
    IF ks = <<>> THEN [pairs |-> <<>>, end |-> Raise("StopIteration", <<>>)]
    ELSE LET r == getattr(w, c, Head(ks))
             rest == IterFrom(w, c, Tail(ks))
         IN  IF r.k = "raise" THEN [pairs |-> <<>>, end |-> r]
             ELSE [pairs |-> <<<<Head(ks), r.v>>>> \o rest.pairs, end |-> rest.end]

__iter__(w, c) == IterFrom(w, c, dict_keys(w.classes[c]._dict))

\* MetaConfig.__getitem__(cls, name, default=_MISSING)
__getitem__(w, c, name, default) ==
    LET ret == getattr_default(w, c, name, default)
    IN  IF ret.k = "raise" THEN ret
        ELSE IF ret.v = _MISSING THEN Raise("KeyError", name)
        ELSE ret

\* MetaConfig.__setattr__(cls, name, value): what it raises or returns, and the
\* class object afterwards (super().__setattr__ stores the attribute)
__setattr__(w, c, name, value) ==
    LET cls == w.classes[c]
    IN  IF ~_check_special_names(name) THEN [out |-> Raise("NotImplementedError", name), cls |-> cls]
        ELSE [out |-> Return(NoneV),
              cls |-> IF name = n_name THEN [cls EXCEPT !.name = value]
                      ELSE IF name = n_dict THEN [cls EXCEPT !._dict = value.d]
                      ELSE [cls EXCEPT !.ns = dict_set(cls.ns, name, value)]]

----------------------------------------------------------------------------
(* The declarations, environments and accesses the model explores.         *)

\* at most this many entries in os.environ at once
MaxEnv == 2

X == <<"X">>
Y == <<"Y">>
P_ == <<"P","_">>
A == <<"A">>
B == <<"B">>

t_str == Type(<<"s","t","r">>, FALSE)
t_int == Type(<<"i","n","t">>, FALSE)
t_bool == Type(<<"b","o","o","l">>, FALSE)
t_csv == Type(<<"c","s","v">>, TRUE)
t_role == Type(<<"R","o","l","e">>, FALSE)
t_union == Alias(NoneV)

s_12 == <<"1","2">>
s_yes == <<"y","e","s">>
s_7 == <<"7">>
s_8 == <<"8">>

\* one optional entry of a class body
Entry(k, v) == IF v = NoClass THEN <<>> ELSE <<<<k, v>>>>
Absent == NoClass

\* A class body in the order a class statement fills it: __module__, then
\* __annotations__ when a name is annotated, then the assignments (__qualname__,
\* a second entry of the kind of __module__, is left out).
Body(ann, prefix, load_all, x, y) ==
    <<<<n_module, StrV(<<"m">>)>>>>
        \o Entry(n_annotations, IF ann = NoAnnotation THEN Absent ELSE DictV(<<<<X, ann>>>>))
        \o Entry(ENV_PREFIX, prefix) \o Entry(ENV_LOAD_ALL, load_all)
        \o Entry(X, x) \o Entry(Y, y)

f_8 == FuncV(Const(StrV(s_8)), NoAnnotation, FALSE)
f_8_str == FuncV(Const(StrV(s_8)), t_str, FALSE)
f_3 == FuncV(Const(IntV(3)), NoAnnotation, FALSE)
f_missing == FuncV(Const(_MISSING), NoAnnotation, FALSE)
f_X_bang == FuncV(Concat(X, <<"!">>), NoAnnotation, FALSE)

\* the defaults of X: none, literals, functions and strict functions
DefaultsX == {Absent, IntV(1), StrV(s_7), f_8, f_missing, strict(f_8)}
\* the defaults of Y: none, or a function that reads X
DefaultsY == {Absent, f_X_bang}
AnnotationsX == {NoAnnotation, t_str, t_int, t_bool}
Prefixes == {Absent, StrV(P_)}
LoadAlls == {Absent, BoolV(TRUE)}

Bodies == {Body(ann, prefix, load_all, x, y) : ann \in AnnotationsX, prefix \in Prefixes, load_all \in LoadAlls, x \in DefaultsX, y \in DefaultsY}

EnvKeys == {X, Y, P_ \o X}
EnvStrings == {s_12, s_yes}
AccessNames == {X, Y, n_name}
ItemDefaults == {_MISSING, IntV(0)}

World == [classes |-> classes, environ |-> environ]

----------------------------------------------------------------------------
(* Actions.                                                                *)

\* class <c>(*bases, metaclass=MetaConfig): <dict>
Declare(c, bases, dict) ==
    /\ classes[c] = NoClass
    /\ \A i \in DOMAIN bases : bases[i] = Object \/ bases[i] \in Built(classes)
    /\ classes' = [classes EXCEPT ![c] = __init__(classes, c, bases, dict)]
    /\ result' = [op |-> "__init__", c |-> c]
    /\ UNCHANGED <<environ, seen>>

\* os.environ[k] = v, by the process or its test
setenv(k, v) ==
    /\ Cardinality(DOMAIN environ \cup {k}) <= MaxEnv
    /\ environ' = [j \in DOMAIN environ \cup {k} |-> IF j = k THEN v ELSE environ[j]]
    /\ result' = [op |-> "setenv", k |-> k]
    /\ UNCHANGED <<classes, seen>>

\* del os.environ[k]
unsetenv(k) ==
    /\ k \in DOMAIN environ
    /\ environ' = [j \in DOMAIN environ \ {k} |-> environ[j]]
    /\ result' = [op |-> "unsetenv", k |-> k]
    /\ UNCHANGED <<classes, seen>>

\* cls.<name>, answered by __getattribute__
Getattribute(c, name) ==
    /\ c \in Built(classes)
    /\ __getattribute__(World, c, name).k = "return"
    /\ result' = [op |-> "__getattribute__", c |-> c, name |-> name, out |-> __getattribute__(World, c, name)]
    /\ UNCHANGED <<classes, environ, seen>>

\* A caller that compares its accesses (test.py:45-53) remembers the outcome of
\* its latest resolution and of the one before.
NotRemembering == [on |-> FALSE]
NothingSeen == [on |-> TRUE, last |-> NoneV, prior |-> NoneV]
Remember(memory, out) == IF memory.on THEN [on |-> TRUE, last |-> out, prior |-> memory.last] ELSE memory

\* (mutant) the resolved value is stored in the table, and found there next time
GetattrMemoized(c, name) ==
    /\ c \in Built(classes)
    /\ __getattribute__(World, c, name).k = "raise"
    /\ result' = [op |-> "__getattr__", c |-> c, name |-> name, out |-> __getattr__(World, c, name)]
    /\ classes' = [classes EXCEPT ![c]._dict = IF result'.out.k = "return" THEN dict_set(@, name, result'.out.v) ELSE @]
    /\ seen' = Remember(seen, result'.out)
    /\ UNCHANGED environ

\* cls.<name>, handed on to __getattr__
Getattr(c, name) ==
    /\ c \in Built(classes)
    /\ __getattribute__(World, c, name).k = "raise"
    /\ result' = [op |-> "__getattr__", c |-> c, name |-> name, out |-> __getattr__(World, c, name)]
    /\ seen' = Remember(seen, result'.out)
    /\ UNCHANGED <<classes, environ>>

\* cls[name], or cls.__getitem__(name, default)
Getitem(c, name, default) ==
    /\ c \in Built(classes)
    /\ result' = [op |-> "__getitem__", c |-> c, name |-> name, default |-> default, out |-> __getitem__(World, c, name, default)]
    /\ UNCHANGED <<classes, environ, seen>>

\* cls.keys()
Keys(c) ==
    /\ c \in Built(classes)
    /\ result' = [op |-> "keys", c |-> c, out |-> keys(World, c)]
    /\ UNCHANGED <<classes, environ, seen>>

\* list(cls)
Iter(c) ==
    /\ c \in Built(classes)
    /\ result' = [op |-> "__iter__", c |-> c, out |-> __iter__(World, c)]
    /\ UNCHANGED <<classes, environ, seen>>

\* cls.<name> = value
Setattr(c, name, value) ==
    /\ c \in Built(classes)
    /\ classes' = [classes EXCEPT ![c] = __setattr__(World, c, name, value).cls]
    /\ result' = [op |-> "__setattr__", c |-> c, name |-> name, out |-> __setattr__(World, c, name, value).out]
    /\ UNCHANGED <<environ, seen>>

----------------------------------------------------------------------------
(* Spec: one declaration, a changing environment, and attribute access.    *)

Init ==
    /\ classes = [c \in {A} |-> NoClass]
    /\ environ = <<>>
    /\ result = [op |-> "start"]
    /\ seen = NotRemembering

Next ==
    \/ \E dict \in Bodies : Declare(A, <<Object>>, dict)
    \/ \E k \in EnvKeys, v \in EnvStrings : setenv(k, v)
    \/ \E k \in EnvKeys : unsetenv(k)
    \/ \E name \in AccessNames : Getattribute(A, name)
    \/ \E name \in AccessNames : Getattr(A, name)

Spec == Init /\ [][Next]_vars

----------------------------------------------------------------------------
(* SpecUncached: one declaration of X, a changing environment, and a       *)
(* caller that remembers what its earlier resolutions of X returned.       *)

UncachedBodies == {Body(NoAnnotation, prefix, load_all, x, Absent) : prefix \in Prefixes, load_all \in LoadAlls, x \in {IntV(1), StrV(s_7), f_8}}

InitUncached ==
    /\ classes = [c \in {A} |-> NoClass]
    /\ environ = <<>>
    /\ result = [op |-> "start"]
    /\ seen = NothingSeen

NextUncached ==
    \/ \E dict \in UncachedBodies : Declare(A, <<Object>>, dict)
    \/ \E k \in EnvKeys, v \in EnvStrings : setenv(k, v)
    \/ \E k \in EnvKeys : unsetenv(k)
    \/ Getattr(A, X)

SpecUncached == InitUncached /\ [][NextUncached]_vars

----------------------------------------------------------------------------
(* SpecFacade: one declaration, a changing environment, and the mapping    *)
(* side of a built class: lookup, keys(), iteration, and assignment.       *)

\* X annotated without a value, X with a value, X a function returning _MISSING
FacadeBodies == {Body(ann, prefix, load_all, x, y) : ann \in {NoAnnotation, t_int}, prefix \in Prefixes, load_all \in LoadAlls, x \in {Absent, IntV(1), f_missing}, y \in DefaultsY}

FacadeEnvKeys == {X, P_ \o X}
FacadeNames == {X, Y}

\* cls.X = 0; cls.name = "B"; cls._dict = {"X": 0}
Assignments == {<<X, IntV(0)>>, <<n_name, StrV(B)>>, <<n_dict, DictV(<<<<X, IntV(0)>>>>)>>}

InitFacade ==
    /\ classes = [c \in {A} |-> NoClass]
    /\ environ = <<>>
    /\ result = [op |-> "start"]
    /\ seen = NotRemembering

NextFacade ==
    \/ \E dict \in FacadeBodies : Declare(A, <<Object>>, dict)
    \/ \E k \in FacadeEnvKeys : setenv(k, s_12)
    \/ \E k \in FacadeEnvKeys : unsetenv(k)
    \/ \E name \in FacadeNames, default \in ItemDefaults : Getitem(A, name, default)
    \/ Keys(A)
    \/ Iter(A)
    \/ \E a \in Assignments : Setattr(A, a[1], a[2])

SpecFacade == InitFacade /\ [][NextFacade]_vars

----------------------------------------------------------------------------
(* SpecInherit: a class A, a class B(A), a changing environment, and       *)
(* attribute access on both.                                               *)

\* a class body with the annotations anns, a dict of names to types
ClassBody(anns, prefix, x, y) ==
    <<<<n_module, StrV(<<"m">>)>>>>
        \o Entry(n_annotations, IF anns = <<>> THEN Absent ELSE DictV(anns))
        \o Entry(ENV_PREFIX, prefix) \o Entry(X, x) \o Entry(Y, y)

\* class A(Config): X, annotated str or not
ParentBodies == {ClassBody(anns, prefix, x, Absent) : anns \in {<<>>, <<<<X, t_str>>>>}, prefix \in Prefixes, x \in {IntV(1), StrV(s_7)}}
\* class B(A): X redeclared or not, Y declared or not, annotated int or not
ChildBodies == {ClassBody(anns, prefix, x, y) : anns \in {<<>>, <<<<Y, t_int>>>>}, prefix \in Prefixes, x \in {Absent, StrV(s_8)}, y \in {Absent, IntV(3)}}

InitInherit ==
    /\ classes = [c \in {A, B} |-> NoClass]
    /\ environ = <<>>
    /\ result = [op |-> "start"]
    /\ seen = NotRemembering

NextInherit ==
    \/ \E dict \in ParentBodies : Declare(A, <<Object>>, dict)
    \/ \E dict \in ChildBodies : Declare(B, <<A>>, dict)
    \/ \E k \in FacadeEnvKeys : setenv(k, s_12)
    \/ \E k \in FacadeEnvKeys : unsetenv(k)
    \/ \E c \in {A, B}, name \in FacadeNames : Getattr(c, name)

SpecInherit == InitInherit /\ [][NextInherit]_vars

----------------------------------------------------------------------------
(* SpecCoercion: a declaration of X and every short string over a small   *)
(* alphabet, and a few words, as its environment entry.                    *)

\* the longest environment string, the words apart
MaxLen == 3

StringsUpTo(chars, n) == UNION {[1..k -> chars] : k \in 0..n}
CoercionStrings == StringsUpTo({"-", ".", "1", "a"}, MaxLen) \cup {<<"t","r","u","e">>, <<"F","a","l","s","e">>, s_yes}

\* X unannotated, or annotated with a type MetaConfig has a method for, a type
\* with its own _coerce, a type with neither, or an alias without a name
CoercionBodies == {Body(ann, Absent, load_all, x, Absent) : ann \in AnnotationsX \cup {t_csv, t_role, t_union}, load_all \in LoadAlls, x \in {Absent, IntV(1)}}

InitCoercion ==
    /\ classes = [c \in {A} |-> NoClass]
    /\ environ = <<>>
    /\ result = [op |-> "start"]
    /\ seen = NotRemembering

NextCoercion ==
    \/ \E dict \in CoercionBodies : Declare(A, <<Object>>, dict)
    \/ \E v \in CoercionStrings : setenv(X, v)
    \/ unsetenv(X)
    \/ Getattr(A, X)

SpecCoercion == InitCoercion /\ [][NextCoercion]_vars

----------------------------------------------------------------------------
(* What the claims speak of, read off the state.                           *)

Resolved == result.op = "__getattr__"
Table(c) == classes[c]._dict
Declared(c, name) == dict_has(Table(c), name)
DefaultOf(c, name) == dict_get(Table(c), name, _MISSING)
PrefixOf(c) == dict_get(Table(c), ENV_PREFIX, StrV(<<>>)).s
LoadsAll(c) == truthy(dict_get(Table(c), ENV_LOAD_ALL, BoolV(FALSE)))
KeyOf(c, name) == PrefixOf(c) \o name
InEnviron(c, name) == KeyOf(c, name) \in DOMAIN environ
HasDefault(c, name) == Declared(c, name) /\ DefaultOf(c, name) # _MISSING
StrictFactory(v) == callable(v) /\ v._strict
Literal(v) == v # _MISSING /\ ~callable(v)
FieldAnnotation(c, name) == dict_get(class_annotations(World, c), name, NoAnnotation)
Without(env, k) == [j \in DOMAIN env \ {k} |-> env[j]]
\* the environment entry of the setting, coerced by its annotation or the heuristic
FromEnviron(c, name) == Coerced(World, c, StrV(environ[KeyOf(c, name)]), FieldAnnotation(c, name))
\* what the function default gives when called, coerced by its return annotation
FromFactory(c, f) ==
    IF call(World, c, f).k = "raise" THEN call(World, c, f)
    ELSE Coerced(World, c, call(World, c, f).v, f.returns)

----------------------------------------------------------------------------
(* C1: a setting with a declared default that is not a strict function,    *)
(* whose key ENV_PREFIX + name is in the environment, resolves to that     *)
(* environment string coerced by the annotation or the heuristic, the      *)
(* function default not called; and under a non-empty prefix an entry      *)
(* under the bare name does not change the result.                         *)
C1_EnvironmentOverridesDefault ==
    Resolved /\ HasDefault(result.c, result.name) /\ ~StrictFactory(DefaultOf(result.c, result.name)) =>
        /\ InEnviron(result.c, result.name) => result.out = FromEnviron(result.c, result.name)
        /\ PrefixOf(result.c) # <<>> =>
            result.out = __getattr__([World EXCEPT !.environ = Without(environ, result.name)], result.c, result.name)

\* X defaults to a function returning "8"; under ENV_PREFIX = "P_" the
\* environment holds P_X = "12" and X = "yes"; X resolved to the integer 12
C1_Witness ==
    /\ Resolved /\ result.name = X
    /\ DefaultOf(result.c, X) = f_8 /\ PrefixOf(result.c) = P_
    /\ environ = (P_ \o X :> s_12) @@ (X :> s_yes)
    /\ result.out = Return(IntV(12))

(* C2: a function default marked strict is never overridden: whatever the  *)
(* environment holds, the setting resolves to what the function gives; and *)
(* another setting of the same class is still overridden.                  *)
C2_StrictNeverOverridden ==
    Resolved =>
        /\ StrictFactory(DefaultOf(result.c, result.name)) =>
            /\ result.out = FromFactory(result.c, DefaultOf(result.c, result.name))
            /\ DefaultOf(result.c, result.name).body.op = "const" =>
                result.out = __getattr__([World EXCEPT !.environ = <<>>], result.c, result.name)
        /\ \A other \in Range(dict_keys(Table(result.c))) :
            /\ other # result.name /\ StrictFactory(DefaultOf(result.c, other))
            /\ HasDefault(result.c, result.name) /\ ~StrictFactory(DefaultOf(result.c, result.name))
            /\ InEnviron(result.c, result.name)
            => result.out = FromEnviron(result.c, result.name)

\* X defaults to the strict function returning "8", the environment holds
\* X = "12", and X resolved to 8
C2_Witness ==
    /\ Resolved /\ result.name = X
    /\ DefaultOf(result.c, X) = strict(f_8)
    /\ InEnviron(result.c, X) /\ environ[KeyOf(result.c, X)] = s_12
    /\ result.out = Return(IntV(8))

(* C3: resolving a name raises AttributeError for it exactly when the name *)
(* is not in the table and (ENV_LOAD_ALL is false or ENV_PREFIX + name is  *)
(* not in the environment); an undeclared name whose key is in the         *)
(* environment resolves to that entry under ENV_LOAD_ALL.                  *)
C3_UnknownSettingExactly ==
    Resolved =>
        /\ result.out = Raise("AttributeError", result.name)
            <=> ~Declared(result.c, result.name) /\ (~LoadsAll(result.c) \/ ~InEnviron(result.c, result.name))
        /\ ~Declared(result.c, result.name) /\ LoadsAll(result.c) /\ InEnviron(result.c, result.name)
            => result.out = FromEnviron(result.c, result.name)

\* the undeclared X, under ENV_LOAD_ALL and ENV_PREFIX = "P_", resolved to the 12
\* of P_X
C3_Witness ==
    /\ Resolved /\ result.name = X /\ ~Declared(result.c, X)
    /\ LoadsAll(result.c) /\ PrefixOf(result.c) = P_
    /\ InEnviron(result.c, X)
    /\ result.out = Return(IntV(12))

(* C4: _MISSING is never the value a resolution returns: a resolution that *)
(* reaches it raises MissingConfigurationException with the setting's name.*)
C4_AbsentNeverReturned ==
    Resolved =>
        /\ result.out # Return(_MISSING)
        /\ Declared(result.c, result.name) /\ DefaultOf(result.c, result.name) = _MISSING /\ ~InEnviron(result.c, result.name)
            => result.out = Raise("MissingConfigurationException", result.name)

(* C5, as claimed: a literal default with no ENV_PREFIX + name in the      *)
(* environment resolves to the literal itself.                             *)
C5_LiteralUnchanged ==
    Resolved /\ Declared(result.c, result.name) /\ Literal(DefaultOf(result.c, result.name)) /\ ~InEnviron(result.c, result.name) =>
        result.out = Return(DefaultOf(result.c, result.name))

(* C5, amended: such a literal is returned unchanged when it is not a      *)
(* string; a string literal goes through the coercion an environment       *)
(* string goes through (the annotation of the name, else the heuristic).   *)
C5_LiteralUnchangedUnlessString ==
    Resolved /\ Declared(result.c, result.name) /\ Literal(DefaultOf(result.c, result.name)) /\ ~InEnviron(result.c, result.name) =>
        result.out =
            IF isinstance_str(DefaultOf(result.c, result.name))
                THEN Coerced(World, result.c, DefaultOf(result.c, result.name), FieldAnnotation(result.c, result.name))
                ELSE Return(DefaultOf(result.c, result.name))

\* X = 1 resolved to 1 while the environment held an entry under the bare
\* name only
C5_Witness ==
    /\ Resolved /\ result.name = X
    /\ DefaultOf(result.c, X) = IntV(1) /\ FieldAnnotation(result.c, X) = t_str
    /\ PrefixOf(result.c) = P_ /\ X \in DOMAIN environ /\ ~InEnviron(result.c, X)
    /\ result.out = Return(IntV(1))

(* C6: resolution is not cached.  After any environment changes and       *)
(* earlier resolutions, a resolution returns what the class as it was      *)
(* declared gives in the environment of that access; once an overriding    *)
(* entry is deleted, the next access returns the declared default again.   *)
AsDeclared(c) == [World EXCEPT !.classes = [classes EXCEPT ![c] = __init__(classes, c, classes[c].bases, classes[c].ns)]]
DeclaredDefault(c, name) == dict_get(classes[c].ns, name, _MISSING)
C6_ResolutionUncached ==
    Resolved =>
        /\ result.out = __getattr__(AsDeclared(result.c), result.c, result.name)
        /\ ~InEnviron(result.c, result.name) /\ Literal(DeclaredDefault(result.c, result.name)) /\ ~isinstance_str(DeclaredDefault(result.c, result.name))
            => result.out = Return(DeclaredDefault(result.c, result.name))

\* X = 1 resolved to the 12 of the environment, the entry was deleted, and X
\* resolved to 1
C6_Witness ==
    /\ Resolved /\ result.name = X
    /\ seen.on /\ seen.prior = Return(IntV(12)) /\ seen.last = result.out
    /\ DeclaredDefault(result.c, X) = IntV(1) /\ ~InEnviron(result.c, X)
    /\ result.out = Return(IntV(1))

(* C7: a built declaration is immutable.  Every assignment to an attribute *)
(* of a built class raises NotImplementedError, and leaves the table and   *)
(* what each name resolves to as they were.                                *)
After == [classes |-> classes', environ |-> environ']
C7_BuiltDeclarationImmutable ==
    [][result'.op = "__setattr__" =>
        /\ result'.out = Raise("NotImplementedError", result'.name)
        /\ classes'[result'.c]._dict = classes[result'.c]._dict
        /\ \A name \in FacadeNames : getattr(After, result'.c, name) = getattr(World, result'.c, name)]_vars

(* C8: lookup maps the failures of resolution uniformly.  cls[name] and    *)
(* cls.__getitem__(name, default) return the resolved value when           *)
(* resolution returns; when it raises AttributeError or                    *)
(* MissingConfigurationException the first raises KeyError and the second  *)
(* returns default.                                                        *)
Looked == result.op = "__getitem__"
Resolution == getattr(World, result.c, result.name)
Failed(r) == r.k = "raise" /\ r.exc \in {"AttributeError", "MissingConfigurationException"}
C8_LookupMapsFailuresUniformly ==
    Looked =>
        /\ Resolution.k = "return" => result.out = Resolution
        /\ Failed(Resolution) /\ result.default # _MISSING => result.out = Return(result.default)
        /\ Failed(Resolution) /\ result.default = _MISSING => result.out = Raise("KeyError", result.name)

(* C8, amended: lookup returns the resolved value when resolution returns  *)
(* one that is not the absent sentinel, and raises KeyError when it        *)
(* returns the sentinel; when resolution raises AttributeError, cls[name]  *)
(* raises KeyError and cls.__getitem__(name, default) returns default;     *)
(* every other exception of resolution, MissingConfigurationException      *)
(* included, leaves lookup as it is, with or without a default.            *)
C8_LookupMapsUnknownSetting ==
    Looked =>
        /\ Resolution.k = "return" /\ Resolution.v # _MISSING => result.out = Resolution
        /\ Resolution.k = "return" /\ Resolution.v = _MISSING => result.out = Raise("KeyError", result.name)
        /\ Resolution.k = "raise" /\ Resolution.exc = "AttributeError" /\ result.default # _MISSING => result.out = Return(result.default)
        /\ Resolution.k = "raise" /\ Resolution.exc = "AttributeError" /\ result.default = _MISSING => result.out = Raise("KeyError", result.name)
        /\ Resolution.k = "raise" /\ Resolution.exc # "AttributeError" => result.out = Resolution

\* X: int without a value and without an entry in the environment, looked up
\* with a default: MissingConfigurationException
C8_Witness ==
    /\ Looked /\ result.name = X /\ result.default = IntV(0)
    /\ DefaultOf(result.c, X) = _MISSING /\ ~InEnviron(result.c, X)
    /\ result.out = Raise("MissingConfigurationException", X)

(* C9: ENV_PREFIX, ENV_LOAD_ALL and name are never among the names of      *)
(* keys() nor among the names of the pairs of iteration, and iteration     *)
(* yields pairs for exactly the names of keys().                           *)
ReservedKeys == {ENV_PREFIX, ENV_LOAD_ALL, n_name}
Names(pairs) == [i \in DOMAIN pairs |-> pairs[i][1]]
C9_ReservedKeysExcluded ==
    /\ result.op = "keys" => Range(result.out) \cap ReservedKeys = {}
    /\ result.op = "__iter__" =>
        /\ Range(Names(result.out.pairs)) \cap ReservedKeys = {}
        /\ Range(Names(result.out.pairs)) = Range(keys(World, result.c))
        /\ result.out.end = Raise("StopIteration", <<>>)

(* C10: a child inherits every setting of its base that it does not       *)
(* redeclare, value and annotation: under the same ENV_PREFIX and          *)
(* ENV_LOAD_ALL the name resolves from the child as it does from the base. *)
(* A name the child redeclares resolves from the child with the child's    *)
(* own value and annotation, and the base is as it was built.              *)
OwnAnnotations(c) == dict_get(classes[c].ns, n_annotations, DictV(<<>>)).d
Redeclares(c, name) == dict_has(classes[c].ns, name) \/ dict_has(OwnAnnotations(c), name)
OwnValue(c, name) == dict_get(classes[c].ns, name, _MISSING)
OwnAnnotation(c, name) == dict_get(OwnAnnotations(c), name, NoAnnotation)
ByOwnEntry(c, name) ==
    IF InEnviron(c, name) THEN Coerced(World, c, StrV(environ[KeyOf(c, name)]), OwnAnnotation(c, name))
    ELSE IF OwnValue(c, name) = _MISSING THEN Raise("MissingConfigurationException", name)
    ELSE Coerced(World, c, OwnValue(c, name), OwnAnnotation(c, name))
C10_ChildInheritsWholeEntries ==
    Resolved /\ result.c = B =>
        /\ ~Redeclares(B, result.name) /\ Declared(A, result.name) /\ PrefixOf(A) = PrefixOf(B) /\ LoadsAll(A) = LoadsAll(B)
            => result.out = __getattr__(World, A, result.name)
        /\ Redeclares(B, result.name) => result.out = ByOwnEntry(B, result.name)
        /\ classes[A] = __init__(classes, A, classes[A].bases, classes[A].ns)

(* C11: an unannotated environment string is classified in this order:    *)
(* "true"/"false" in any case is a bool; exactly one '.' and otherwise     *)
(* digits after an optional leading '-' is a float; digits after an        *)
(* optional leading '-' is an int; every other string is returned as it    *)
(* is, so the heuristic never raises.                                      *)
OptionalMinus(s) == IF s # <<>> /\ s[1] = "-" THEN Tail(s) ELSE s
LooksBool(s) == lower(s) \in {<<"t","r","u","e">>, <<"f","a","l","s","e">>}
LooksFloat(s) == count(s, ".") = 1 /\ isdigit(SelectSeq(OptionalMinus(s), LAMBDA x : x # "."))
LooksInt(s) == isdigit(OptionalMinus(s))
Heuristically(s) ==
    IF LooksBool(s) THEN Return(BoolV(lower(s) = <<"t","r","u","e">>))
    ELSE IF LooksFloat(s) THEN float(s)
    ELSE IF LooksInt(s) THEN int(s)
    ELSE Return(StrV(s))
C11_HeuristicOrderNeverFails ==
    Resolved /\ InEnviron(result.c, result.name) /\ FieldAnnotation(result.c, result.name) = NoAnnotation
        /\ (Declared(result.c, result.name) \/ LoadsAll(result.c)) =>
            /\ result.out = Heuristically(environ[KeyOf(result.c, result.name)])
            /\ result.out.k = "return"

(* C12: an annotated environment string is coerced by the annotation      *)
(* alone: by the annotation's own _coerce if it has one, else by the       *)
(* method _to_<lower-cased type name> (bool: true exactly for "yes",       *)
(* "true", "1" in any case; str: the string itself), and when there is     *)
(* neither the string is returned as it is.                                *)
BuiltinFor(annotation) == ToName(lower(annoname(annotation).s))
HasBuiltin(annotation) == annoname(annotation) # NoneV /\ BuiltinFor(annotation) \in MetaConfigMethods
ByAnnotation(annotation, s) ==
    IF annotation._coerce THEN CallCoerce(s)
    ELSE IF HasBuiltin(annotation) THEN CallMethod(MethodV(BuiltinFor(annotation)), s)
    ELSE Return(StrV(s))
C12_AnnotationAloneCoerces ==
    Resolved /\ InEnviron(result.c, result.name) /\ FieldAnnotation(result.c, result.name) # NoAnnotation =>
        LET annotation == FieldAnnotation(result.c, result.name)
            s == environ[KeyOf(result.c, result.name)]
        IN  /\ result.out = ByAnnotation(annotation, s)
            /\ annotation = t_bool => result.out = Return(BoolV(lower(s) \in {s_yes, <<"t","r","u","e">>, <<"1">>}))
            /\ annotation = t_str => result.out = Return(StrV(s))

(* C13: when a function default is called (no environment entry           *)
(* overrides it) and returns a string, the string is coerced under the     *)
(* class's annotation of the setting when there is one, and under the      *)
(* function's return annotation only when there is none; a value that is   *)
(* not a string is returned unchanged.                                     *)
Called(c, name) == callable(DefaultOf(c, name)) /\ (StrictFactory(DefaultOf(c, name)) \/ ~InEnviron(c, name))
FieldFirst(c, name) == IF FieldAnnotation(c, name) # NoAnnotation THEN FieldAnnotation(c, name) ELSE DefaultOf(c, name).returns
C13_FieldAnnotationBeforeReturnAnnotation ==
    Resolved /\ Called(result.c, result.name) /\ call(World, result.c, DefaultOf(result.c, result.name)).k = "return" =>
        LET value == call(World, result.c, DefaultOf(result.c, result.name)).v
        IN  result.out = IF isinstance_str(value) THEN Coerced(World, result.c, value, FieldFirst(result.c, result.name))
                         ELSE Return(value)

====
